---- MODULE Spec2Model ----
(***************************************************************************)
(* A model of dot2tex.py: the entry points main and convert_graph, the     *)
(* option parser, the timestamp skip, the hash cache, the in-graph         *)
(* d2toutputformat / d2toptions attributes, the choice of the converter    *)
(* and the handling of the converter's exceptions.                         *)
(*                                                                         *)
(* Conventions.  Python's None is the string "None".  A dot text is a      *)
(* sequence of lines, each line a record [k, v, w]: k is what the regular  *)
(* expressions of main see in the line, v the captured text, w the         *)
(* whitespace-separated words of a d2toptions value.  sys.argv is the      *)
(* sequence of the arguments after the program name.  An MD5 digest is     *)
(* modelled collision-free, as the pair it was computed from.              *)
(***************************************************************************)
EXTENDS Integers, Sequences, FiniteSets, TLC

None == "None"

(***************************************************************************)
(* create_options_parser: the options main reads, and straightedges as the *)
(* representative of the options that are only handed to the converter.    *)
(***************************************************************************)
FormatFlags == {"-f", "--format"}
FormatChoices == {"pstricks", "pgf", "pst", "tikz", "psn"}
OutputFlags == {"-o", "--output"}
StoreTrueDest ==
    [s \in {"-s", "--straightedges", "--force", "--debug", "--runtests",
            "--autosize", "--cache", "-V", "--version"} |->
        CASE s \in {"-s", "--straightedges"} -> "straightedges"
          [] s = "--force" -> "force"
          [] s = "--debug" -> "debug"
          [] s = "--runtests" -> "runtests"
          [] s = "--autosize" -> "autosize"
          [] s = "--cache" -> "cache"
          [] s \in {"-V", "--version"} -> "printversion"]
StoreTrueFlags == DOMAIN StoreTrueDest
OptionStrings == FormatFlags \cup OutputFlags \cup StoreTrueFlags
\* Words that start with "-" and are no option string of the parser.
UnknownFlags == {"--bogus"}

\* The namespace parse_args([]) returns: every dest with its default.
Defaults ==
    [format |-> None, straightedges |-> FALSE, outputfile |-> None,
     force |-> FALSE, printversion |-> FALSE, debug |-> FALSE,
     runtests |-> FALSE, autosize |-> FALSE, cache |-> FALSE,
     inputfile |-> None]
OptionNames == DOMAIN Defaults

\* argparse over a word list, left to right.  npos counts the positionals
\* seen; after the last word the positional inputfile (nargs='?') is given
\* its default when the words named none: argparse runs the action of such a
\* positional even when nothing matches it.  A bad or missing argument of an option is an error where it stands;
\* an unknown option and a second positional are collected (extras) and
\* reported after the last word.  Either way parser.error: sys.exit(2).
RECURSIVE ParseWords(_, _, _, _)
ParseWords(args, ns, npos, extras) ==
    IF args = <<>>
    THEN [ok |-> ~extras,
          ns |-> IF npos = 0 THEN [ns EXCEPT !.inputfile = Defaults.inputfile] ELSE ns]
    ELSE LET a == Head(args)
             rest == Tail(args)
             err == [ok |-> FALSE, ns |-> ns]
         IN  CASE a \in FormatFlags ->
                    IF rest # <<>> /\ Head(rest) \in FormatChoices
                    THEN ParseWords(Tail(rest), [ns EXCEPT !.format = Head(rest)],
                                    npos, extras)
                    ELSE err
               [] a \in OutputFlags ->
                    IF rest # <<>> /\ Head(rest) \notin OptionStrings \cup UnknownFlags
                    THEN ParseWords(Tail(rest), [ns EXCEPT !.outputfile = Head(rest)],
                                    npos, extras)
                    ELSE err
               [] a \in StoreTrueFlags ->
                    ParseWords(rest, [ns EXCEPT ![StoreTrueDest[a]] = TRUE], npos, extras)
               [] a \in UnknownFlags -> ParseWords(rest, ns, npos, TRUE)
               [] OTHER ->
                    IF npos = 0
                    THEN ParseWords(rest, [ns EXCEPT !.inputfile = a], 1, extras)
                    ELSE ParseWords(rest, ns, npos, TRUE)

\* parser.parse_args(args, namespace).  The namespaces of this model have
\* every dest already, so argparse sets no default before it reads the words.
ParseArgs(args, ns) == ParseWords(args, ns, 0, FALSE)

\* process_cmd_line: parser.parse_args() over sys.argv, on a new namespace.
process_cmd_line(argv) == ParseArgs(argv, Defaults)

(***************************************************************************)
(* Dot texts.                                                              *)
(***************************************************************************)
Line(k, v, w) == [k |-> k, v |-> v, w |-> w]
Text(v) == Line("text", v, <<>>)
\* A line of white space only.
Blank == Line("blank", "", <<>>)
\* A line with d2toutputformat=<v>: v is what ([a-z]*) captures, "" when the
\* value is quoted or starts with another character.
FmtLine(v) == Line("fmt", v, <<>>)
\* A line d2toptions="<words>";
OptsLine(w) == Line("opts", "", w)
\* A line \input{<v>}
InputLine(v) == Line("input", v, <<>>)
\* Lines the converters fail on: see convert.
BadKinds == {"syntaxerror", "preprocerror", "crash", "sysexit"}

\* [x for x in lines if P(x)]
RECURSIVE SelectLines(_, _)
SelectLines(lines, kinds) ==
    IF lines = <<>> THEN <<>>
    ELSE IF Head(lines).k \in kinds
         THEN <<Head(lines)>> \o SelectLines(Tail(lines), kinds)
         ELSE SelectLines(Tail(lines), kinds)
Range(seq) == {seq[i] : i \in 1..Len(seq)}
HasLine(lines, kind) == \E i \in 1..Len(lines) : lines[i].k = kind

(***************************************************************************)
(* The converters (pgfformat, pstricksformat, dotparsing) are imported:    *)
(* a converter is a deterministic function of the dot data and of the      *)
(* options dictionary it was constructed with, that either returns an      *)
(* output text or raises.                                                  *)
(***************************************************************************)
DEFAULT_OUTPUT_FORMAT == "pgf"
\* The value of s before any conversion: s = "".
EmptyStr == [conv |-> "", data |-> <<>>, opts |-> Defaults, passes |-> 0]
\* main returning None.
NoneRet == [conv |-> None, data |-> <<>>, opts |-> Defaults, passes |-> 0]
\* conv.convert(data); pass 2 is the conversion of the first output (autosize).
convert(conv, opts, data, pass) ==
    LET exc == CASE pass = 1 /\ HasLine(data, "syntaxerror") -> "ParseException"
                 [] pass = 1 /\ HasLine(data, "crash") -> "Exception"
                 [] pass = 1 /\ HasLine(data, "sysexit") -> "SystemExit"
                 [] pass = 2 /\ HasLine(data, "preprocerror") -> "ParseException"
                 [] OTHER -> "none"
    IN  [exc |-> exc,
         s |-> [conv |-> conv, data |-> data, opts |-> opts, passes |-> pass]]

(***************************************************************************)
(* The world main acts on: the logger "dot2tex" of the process, the dot    *)
(* files and output files by name, the hash file dot2tex.cache of the      *)
(* directory of the dot files, and the clock the file times are read from. *)
(***************************************************************************)
InNames == {"in.dot", "inc.dot"}
OutNames == {"out.tex"}
NoFile == [exists |-> FALSE, mtime |-> 0, lines |-> <<>>]
NoOutput == [exists |-> FALSE, mtime |-> 0, content |-> EmptyStr]
\* An output file that no conversion of this model wrote.
Foreign == [conv |-> "foreign", data |-> <<>>, opts |-> Defaults, passes |-> 0]
NoHash == [data |-> <<>>, argv |-> <<>>]
NoCache == [exists |-> FALSE, corrupt |-> FALSE, hashes |-> [n \in InNames |-> NoHash]]
NewLog == [level |-> "NOTSET", handlers |-> <<>>]

\* os.access(name, os.F_OK), path.exists(name)
InExists(inputs, name) == name \in InNames /\ inputs[name].exists
OutExists(outputs, name) == name \in OutNames /\ outputs[name].exists
\* os.stat(name)[8]
InTime(inputs, name) == IF name \in InNames THEN inputs[name].mtime ELSE 0
OutTime(outputs, name) == IF name \in OutNames THEN outputs[name].mtime ELSE 0

(***************************************************************************)
(* main, as the sequence of its steps over a frame: its parameters, its    *)
(* locals and the world.  status is "running" until main ends: "returned", *)
(* "exit" (sys.exit(code): the exception SystemExit, which ends the        *)
(* process in command-line mode and reaches the caller in module mode) or  *)
(* "raised" (exception exc reaches the caller).  at names the place.       *)
(***************************************************************************)
Frame(run_as_module, dotdata, options, argv, stdin, w) ==
    [m |-> run_as_module, dotdata |-> dotdata, options |-> options,
     argv |-> argv, stdin |-> stdin, base |-> options,
     nodebug |-> TRUE, gfmt |-> None, extra |-> <<>>, hasextra |-> FALSE,
     conv |-> None, handed |-> Defaults, s |-> EmptyStr, ret |-> NoneRet,
     printed |-> FALSE, wrote |-> None, hashed |-> NoHash,
     log |-> w.log, inputs |-> w.inputs, outputs |-> w.outputs,
     cache |-> w.cache, now |-> w.now,
     status |-> "running", code |-> 0, exc |-> "none", at |-> "main"]

Exit(f, code, at) == [f EXCEPT !.status = "exit", !.code = code, !.at = at]
Raise(f, exc, at) == [f EXCEPT !.status = "raised", !.exc = exc, !.at = at]
Running(f) == f.status = "running"

\* lines 266-280
CmdLine(f) ==
    IF ~Running(f) THEN f
    ELSE LET r == process_cmd_line(f.argv)
             g == IF f.m THEN f
                  ELSE IF ~r.ok THEN Exit(f, 2, "usage")
                  ELSE [f EXCEPT !.options = r.ns, !.base = r.ns,
                                 !.log.handlers = Append(@, "console")]
         IN  IF Running(g) /\ g.options.runtests THEN Exit(g, 0, "runtests") ELSE g

\* lines 282-294
DebugLog(f) ==
    IF ~Running(f) THEN f
    ELSE IF f.options.debug
         THEN [f EXCEPT !.log.handlers = IF f.m THEN @ ELSE Append(@, "file"),
                        !.log.level = "DEBUG",
                        !.nodebug = FALSE]
         ELSE [f EXCEPT !.nodebug = TRUE]

\* load_dot_file, lines 253-257: the lines of the file, or an IOError.
load_dot_file(inputs, filename) ==
    IF InExists(inputs, filename)
    THEN [ok |-> TRUE, lines |-> inputs[filename].lines]
    ELSE [ok |-> FALSE, lines |-> <<>>]

\* lines 319-329
TimestampSkip(f) ==
    /\ f.options.outputfile # None /\ f.options.force = FALSE
    /\ InExists(f.inputs, f.options.inputfile)
    /\ OutExists(f.outputs, f.options.outputfile)
    /\ InTime(f.inputs, f.options.inputfile) < OutTime(f.outputs, f.options.outputfile)

\* lines 306-341
ReadInput(f) ==
    IF ~Running(f) THEN f
    ELSE IF f.m THEN f   \* dotdata.splitlines(True): the lines handed in
    ELSE IF f.options.printversion THEN Exit(f, 0, "version")
    ELSE IF f.options.inputfile = None THEN [f EXCEPT !.dotdata = f.stdin]
    ELSE IF TimestampSkip(f) THEN Exit(f, 0, "skip")
    ELSE LET r == load_dot_file(f.inputs, f.options.inputfile)
         IN  IF r.ok THEN [f EXCEPT !.dotdata = r.lines] ELSE Exit(f, 1, "load")

\* lines 343-360: the first \input{filename} replaces the data by the file.
Include(f) ==
    IF ~Running(f) THEN f
    ELSE LET m == SelectLines(f.dotdata, {"input"})
         IN  IF m = <<>> THEN f
             ELSE LET r == load_dot_file(f.inputs, m[1].v)
                  IN  IF r.ok THEN [f EXCEPT !.dotdata = r.lines]
                      ELSE IF f.m THEN Raise(f, "IOError", "input")
                      ELSE Exit(f, 1, "input")

\* lines 366-367: the lines that are not blank
StripBlank(f) ==
    IF ~Running(f) THEN f
    ELSE [f EXCEPT !.dotdata = SelectLines(f.dotdata, {l.k : l \in Range(f.dotdata)} \ {"blank"})]

\* hashlib.md5 of dotdata + "".join(sys.argv), lines 376-378
InputHash(dotdata, argv) == [data |-> dotdata, argv |-> argv]
\* lines 383-390: the dictionary of the hash file, {} when it is missing or
\* cannot be unpickled.
LoadHashes(c) == IF c.exists /\ ~c.corrupt THEN c.hashes ELSE NoCache.hashes

\* CacheHit without line 391's second test: the output file is not looked at.
CacheHitNoOutput(f) ==
    LoadHashes(f.cache)[f.options.inputfile] = InputHash(f.dotdata, f.argv)

\* line 391; the key is path.basename(inputfilename)
CacheHit(f) ==
    /\ LoadHashes(f.cache)[f.options.inputfile] = InputHash(f.dotdata, f.argv)
    /\ OutExists(f.outputs, f.options.outputfile)

\* line 369
UseCache(f) == f.options.cache /\ ~f.m

\* lines 369-405
Cache(f) ==
    IF ~Running(f) THEN f
    ELSE IF ~UseCache(f) THEN f
    ELSE IF f.options.inputfile # None /\ f.options.outputfile # None
         THEN IF CacheHit(f) THEN Exit(f, 0, "cache")
              ELSE LET h == InputHash(f.dotdata, f.argv)
                   IN  [f EXCEPT !.hashed = h,
                                 !.cache = [exists |-> TRUE, corrupt |-> FALSE,
                                            hashes |-> [LoadHashes(f.cache) EXCEPT
                                                          ![f.options.inputfile] = h]]]
         ELSE f   \* a warning only

\* lines 420-428
DebugFromOptions(f) ==
    IF f.options.debug /\ f.nodebug
    THEN [f EXCEPT !.log.handlers = IF f.m THEN @ ELSE Append(@, "file"),
                   !.log.level = "DEBUG",
                   !.nodebug = FALSE]
    ELSE f

\* lines 407-428
Attributes(f) ==
    IF ~Running(f) THEN f
    ELSE LET fmtattr == SelectLines(f.dotdata, {"fmt"})
             extraoptions == SelectLines(f.dotdata, {"opts"})
             g == [f EXCEPT !.gfmt = IF fmtattr # <<>> THEN fmtattr[1].v ELSE None]
         IN  IF extraoptions = <<>> THEN g
             ELSE LET r == ParseArgs(extraoptions[1].w, g.options)
                      h == [g EXCEPT !.options = r.ns, !.hasextra = TRUE,
                                     !.extra = extraoptions[1].w]
                  IN  IF r.ok THEN DebugFromOptions(h) ELSE Exit(h, 2, "d2toptions")

\* OutputFormat with the first two operands of line 430 swapped: the
\* attribute of the graph comes first.
OutputFormatGraphFirst(options, gfmt) ==
    IF gfmt \notin {None, ""} THEN gfmt
    ELSE IF options.format # None THEN options.format
    ELSE DEFAULT_OUTPUT_FORMAT

\* line 430: options.format or gfmt or DEFAULT_OUTPUT_FORMAT
OutputFormat(options, gfmt) ==
    IF options.format # None THEN options.format
    ELSE IF gfmt \notin {None, ""} THEN gfmt
    ELSE DEFAULT_OUTPUT_FORMAT

\* ConverterOf with psn in the first branch: the plain PSTricks converter.
ConverterOfPlain(fmt) ==
    CASE fmt \in {"pstricks", "pst", "psn"} -> "Dot2PSTricksConv"
      [] fmt = "pgf" -> "Dot2PGFConv"
      [] fmt = "tikz" -> "Dot2TikZConv"
      [] fmt = "positions" -> "PositionsDotConv"
      [] OTHER -> None

\* lines 433-445; None: no converter, "Unknown output format"
ConverterOf(fmt) ==
    CASE fmt \in {"pstricks", "pst"} -> "Dot2PSTricksConv"
      [] fmt = "psn" -> "Dot2PSTricksNConv"
      [] fmt = "pgf" -> "Dot2PGFConv"
      [] fmt = "tikz" -> "Dot2TikZConv"
      [] fmt = "positions" -> "PositionsDotConv"
      [] OTHER -> None

\* lines 430-445
Select(f) ==
    IF ~Running(f) THEN f
    ELSE LET output_format == OutputFormat(f.options, f.gfmt)
             g == [f EXCEPT !.options.format = output_format]
         IN  IF ConverterOf(output_format) = None THEN Exit(g, 1, "format")
             ELSE [g EXCEPT !.conv = ConverterOf(output_format), !.handed = g.options]

\* lines 453-458: the output goes to the output file, or else is printed in
\* command-line mode.
Deliver(f, s) ==
    IF f.options.outputfile # None
    THEN [f EXCEPT !.s = s, !.wrote = f.options.outputfile,
                   !.outputs = IF f.options.outputfile \in OutNames
                               THEN [@ EXCEPT ![f.options.outputfile] =
                                       [exists |-> TRUE, mtime |-> f.now, content |-> s]]
                               ELSE @]
    ELSE [f EXCEPT !.s = s, !.printed = ~f.m]

\* Failed without the raise of module mode: the exception is logged and
\* main returns.
FailedQuiet(f, exc) ==
    [f EXCEPT !.status = "returned", !.exc = exc, !.at = "failed",
              !.ret = IF f.m THEN f.s ELSE NoneRet]

\* lines 459-479: the exception handlers.  In module mode the exception is
\* raised again; in command-line mode it is logged and main goes on to its
\* end, returning None.
Failed(f, exc) ==
    IF f.m THEN Raise(f, exc, "failed")
    ELSE [f EXCEPT !.status = "returned", !.exc = exc, !.at = "failed", !.ret = NoneRet]

\* lines 446-479
Convert(f) ==
    IF ~Running(f) THEN f
    ELSE LET r1 == convert(f.conv, f.handed, f.dotdata, 1)
             r2 == convert(f.conv, f.handed, r1.s.data, 2)
         IN  IF r1.exc # "none" THEN Failed(f, r1.exc)
             ELSE IF f.options.autosize /\ r2.exc # "none"
                  THEN Failed([f EXCEPT !.s = r1.s], r2.exc)
             ELSE LET g == Deliver(f, IF f.options.autosize THEN r2.s ELSE r1.s)
                  IN  [g EXCEPT !.status = "returned", !.at = "end",
                                !.ret = IF f.m THEN g.s ELSE NoneRet]

\* main(run_as_module, dotdata, options), lines 260-479
main(f) ==
    Convert(Select(Attributes(Cache(StripBlank(Include(ReadInput(DebugLog(CmdLine(f)))))))))

\* NewNamespace with one namespace shared by the calls: what main merged
\* into it is still there at the next call.
SharedNamespace(previous) == previous

\* convert_graph, lines 489-491: a new parser and a new namespace for every
\* call; the namespace of the call before (previous) is not looked at.
NewNamespace(previous) == Defaults

\* lines 492-496: options.__dict__.update(kwargs)
UpdateOptions(options, kwargs) ==
    [n \in OptionNames |-> IF n \in DOMAIN kwargs THEN kwargs[n] ELSE options[n]]

(***************************************************************************)
(* State: the world, and the invocation that ended last (last), with what  *)
(* it was given, what it saw of the world before it ran (pre) and how it   *)
(* ended.  last.mode is "idle" when no invocation ended since the process  *)
(* or the files last changed.                                              *)
(***************************************************************************)
VARIABLES log, inputs, outputs, cache, now, last
vars == <<log, inputs, outputs, cache, now, last>>

World == [log |-> log, inputs |-> inputs, outputs |-> outputs, cache |-> cache,
          now |-> now]

\* What a frame's invocation sees of the world w before it runs.
Pre(f0, w) ==
    LET o == IF f0.m THEN f0.options ELSE process_cmd_line(f0.argv).ns
    IN  [log |-> w.log, cache |-> w.cache, outputs |-> w.outputs,
         inexists |-> InExists(w.inputs, o.inputfile),
         outexists |-> OutExists(w.outputs, o.outputfile),
         older |-> InTime(w.inputs, o.inputfile) < OutTime(w.outputs, o.outputfile)]

Observed(f0, f, w, mode, src, kwargs) ==
        [mode |-> mode, src |-> src, kwargs |-> kwargs, argv |-> f.argv, base |-> f.base,
         options |-> f.options, dotdata |-> f.dotdata, gfmt |-> f.gfmt,
         hasextra |-> f.hasextra, extra |-> f.extra, conv |-> f.conv,
         handed |-> f.handed, ret |-> f.ret, printed |-> f.printed,
         wrote |-> f.wrote, hashed |-> f.hashed, status |-> f.status,
         code |-> f.code, exc |-> f.exc, at |-> f.at, pre |-> Pre(f0, w)]

Idle ==
    [mode |-> "idle", src |-> <<>>, kwargs |-> <<>>, argv |-> <<>>, base |-> Defaults,
     options |-> Defaults, dotdata |-> <<>>, gfmt |-> None,
     hasextra |-> FALSE, extra |-> <<>>, conv |-> None,
     handed |-> Defaults, ret |-> NoneRet, printed |-> FALSE,
     wrote |-> None, hashed |-> NoHash, status |-> "idle",
     code |-> 0, exc |-> "none", at |-> "main",
     pre |-> [log |-> NewLog, cache |-> NoCache,
              outputs |-> [n \in OutNames |-> NoOutput], inexists |-> FALSE,
              outexists |-> FALSE, older |-> FALSE]]

(***************************************************************************)
(* Bounds and inputs.                                                      *)
(***************************************************************************)
\* The most handlers the logger of a process gets before the process ends.
MaxHandlers == 2
\* The last tick of the clock of the file times.
MaxTime == 1

Absent == <<None>>
Good == Text("a -> b;")
Bad(k) == Line(k, "a -> ;", <<>>)
\* A dot text: an optional d2toutputformat line, an optional d2toptions line
\* and a body line.
Graph(fmt, opts, body) ==
    (IF fmt = None THEN <<>> ELSE <<FmtLine(fmt)>>)
    \o (IF opts = Absent THEN <<>> ELSE <<OptsLine(opts)>>) \o <<body>>

FmtAttrs == {None, "tikz", "", "foo", "positions"}
OptsAttrs == {Absent, <<"--straightedges">>, <<"-f", "pgf">>,
              <<"--format", "positions">>, <<"--debug">>, <<"--bogus">>}
Graphs ==
    {Graph(fm, o, Good) : fm \in {None, "tikz"}, o \in OptsAttrs}
    \cup {Graph(fm, Absent, Good) : fm \in FmtAttrs}
    \cup {Graph(None, Absent, Bad(k)) : k \in BadKinds}
    \cup {Graph(None, <<"--debug">>, Bad("syntaxerror")), <<Blank, Good, Blank>>,
          <<InputLine("inc.dot")>>, <<InputLine("gone.dot")>>}
\* What main() is given on its standard input.
StdinGraphs ==
    {<<Good>>, Graph("tikz", <<"-f", "pgf">>, Good), Graph("positions", Absent, Good),
     Graph(None, <<"--format", "positions">>, Good), <<Bad("syntaxerror")>>,
     <<Bad("crash")>>}
Kwargs ==
    {<<>>, [format |-> "tikz"], [format |-> "psn"],
     [format |-> "positions"], [format |-> "foo"], [straightedges |-> TRUE],
     [debug |-> TRUE], [autosize |-> TRUE], [runtests |-> TRUE]}
Argvs ==
    {<<>>, <<"-f", "tikz">>, <<"-f", "positions">>, <<"-f", "pstricks">>,
     <<"--debug">>, <<"in.dot">>, <<"-s", "in.dot">>, <<"gone.dot">>,
     <<"-V">>, <<"--runtests">>, <<"--bogus">>}

\* The dot files of the file specification, its command lines, and the
\* calls of convert_graph that write an output file.
FileGraphs ==
    {<<Good>>, <<Blank, Good>>, <<Bad("syntaxerror")>>, <<FmtLine("foo"), Good>>}
FileArgvs ==
    {<<"in.dot", "-o", "out.tex">>,
     <<"in.dot", "-o", "out.tex", "--force">>,
     <<"in.dot", "-o", "out.tex", "--cache">>,
     <<"in.dot", "-o", "out.tex", "--cache", "--force">>,
     <<"in.dot", "--cache">>,
     <<"--cache">>}
ModuleCalls ==
    {<<g, k>> : g \in {<<Good>>, <<Bad("syntaxerror")>>},
                k \in {[outputfile |-> "out.tex"],
                       [outputfile |-> "out.tex", inputfile |-> "in.dot", cache |-> TRUE]}}
    \cup {<<g, [outputfile |-> "out.tex", autosize |-> TRUE]>> :
              g \in {<<Good>>, <<Bad("preprocerror")>>}}

File(lines, t) == [exists |-> TRUE, mtime |-> t, lines |-> lines]

(***************************************************************************)
(* Actions.                                                                *)
(***************************************************************************)
Invoke(f0, mode, src, kwargs, keeplog) ==
    \E f \in {main(f0)} :
        /\ Len(f.log.handlers) <= MaxHandlers
        /\ log' = IF keeplog THEN f.log ELSE NewLog
        /\ outputs' = f.outputs
        /\ cache' = f.cache
        /\ last' = Observed(f0, f, World, mode, src, kwargs)
        /\ UNCHANGED <<inputs, now>>

\* convert_graph(dotsource, **kwargs), lines 482-498
ConvertGraph(dotsource, kwargs) ==
    Invoke(Frame(TRUE, dotsource, UpdateOptions(NewNamespace(last.options), kwargs),
                 <<>>, <<>>, World),
           "module", dotsource, kwargs, TRUE)

\* main() called in the process, with sys.argv and the standard input
MainCommandLine(argv, stdin) ==
    Invoke(Frame(FALSE, <<>>, Defaults, argv, stdin, World), "cli", stdin, <<>>, TRUE)

\* The process ends and a new one starts: a new logger.
NewProcess ==
    /\ log' = NewLog
    /\ last' = Idle
    /\ UNCHANGED <<inputs, outputs, cache, now>>

\* The command dot2tex run in a process of its own.
Command(argv, stdin) ==
    Invoke(Frame(FALSE, <<>>, Defaults, argv, stdin, [World EXCEPT !.log = NewLog]),
           "cli", stdin, <<>>, FALSE)

Tick ==
    /\ now < MaxTime
    /\ now' = now + 1
    /\ last' = Idle
    /\ UNCHANGED <<log, inputs, outputs, cache>>

\* The user saves the dot file.
EditInput(lines) ==
    /\ inputs' = [inputs EXCEPT !["in.dot"] = File(lines, now)]
    /\ inputs' # inputs
    /\ last' = Idle
    /\ UNCHANGED <<log, outputs, cache, now>>

\* The user removes the output file.
RemoveOutput ==
    /\ outputs["out.tex"].exists
    /\ outputs' = [outputs EXCEPT !["out.tex"] = NoOutput]
    /\ last' = Idle
    /\ UNCHANGED <<log, inputs, cache, now>>

(***************************************************************************)
(* Spec: one process that calls convert_graph and main on fixed files.     *)
(***************************************************************************)
Init ==
    /\ log = NewLog
    /\ inputs = [n \in InNames |->
                    IF n = "in.dot"
                    THEN File(Graph("tikz", <<"--straightedges">>, Good), 0)
                    ELSE File(<<Good>>, 0)]
    /\ outputs = [n \in OutNames |-> NoOutput]
    /\ cache = NoCache
    /\ now = 0
    /\ last = Idle

Next ==
    \/ \E g \in Graphs, k \in Kwargs : ConvertGraph(g, k)
    \/ \E a \in Argvs, g \in StdinGraphs : MainCommandLine(a, g)
    \/ NewProcess

Spec == Init /\ [][Next]_vars

(***************************************************************************)
(* SpecFiles: runs of the command, and calls of convert_graph, over a dot  *)
(* file and an output file that change between the runs.                   *)
(***************************************************************************)
InitFiles ==
    /\ log = NewLog
    /\ inputs = [n \in InNames |-> IF n = "in.dot" THEN File(<<Good>>, 0) ELSE NoFile]
    /\ \E o \in {NoOutput, [exists |-> TRUE, mtime |-> 0, content |-> Foreign]} :
          outputs = [n \in OutNames |-> o]
    /\ cache \in {NoCache, [NoCache EXCEPT !.exists = TRUE, !.corrupt = TRUE]}
    /\ now = 0
    /\ last = Idle

NextFiles ==
    \/ \E a \in FileArgvs : Command(a, <<Good>>)
    \/ \E c \in ModuleCalls : ConvertGraph(c[1], c[2])
    \/ Tick
    \/ \E g \in FileGraphs : EditInput(g)
    \/ RemoveOutput

SpecFiles == InitFiles /\ [][NextFiles]_vars

(***************************************************************************)
(* The claims.                                                             *)
(***************************************************************************)
Ran == last.mode # "idle"
Cli == last.mode = "cli"
Module == last.mode = "module"
\* main got as far as choosing the converter (line 430).
ReachedSelect == last.conv # None \/ last.at = "format"
\* The converter raised.
ConverterExceptions == {"ParseException", "Exception", "SystemExit"}
\* Nothing was converted, written or printed.
NothingConverted ==
    /\ last.conv = None /\ last.ret = NoneRet /\ ~last.printed
    /\ last.wrote = None /\ outputs = last.pre.outputs

\* The format a word list names: the value of its last -f/--format.
RECURSIVE FormatWord(_)
FormatWord(words) ==
    IF Len(words) < 2 THEN None
    ELSE IF words[1] \in FormatFlags
         THEN LET r == FormatWord(Tail(Tail(words)))
              IN  IF r = None THEN words[2] ELSE r
         ELSE FormatWord(Tail(words))
\* The store_true options a word list names.
FlagsNamed(words) == {StoreTrueDest[w] : w \in Range(words) \cap StoreTrueFlags}
NoUnknownWords ==
    Range(last.argv) \cap UnknownFlags = {} /\ Range(last.extra) \cap UnknownFlags = {}

\* C1: with a d2toptions attribute, every option handed to the converter has
\* the d2toptions value if it is named there and the unchanged base value if
\* it is not (a base format of None excepted, which main resolves).  The
\* d2toptions values of the model name store_true options and the format.
C1_MergedOverBase ==
    (Ran /\ last.hasextra /\ last.conv # None) =>
        \A n \in OptionNames :
            IF n \in FlagsNamed(last.extra) THEN last.handed[n] = TRUE
            ELSE IF n = "format"
                 THEN IF FormatWord(last.extra) # None
                      THEN last.handed.format = FormatWord(last.extra)
                      ELSE last.base.format # None => last.handed.format = last.base.format
            ELSE last.handed[n] = last.base[n]

\* C2, as claimed: with no format on the command line (or keyword) the
\* dialect the graph's d2toutputformat names is used, and the default only
\* when it names none; with one, the attribute is ignored.
C2_Original ==
    ReachedSelect =>
        /\ last.base.format = None =>
              last.options.format =
                  IF last.gfmt \notin {None, ""} THEN last.gfmt ELSE DEFAULT_OUTPUT_FORMAT
        /\ last.base.format # None =>
              last.options.format \in {last.base.format, FormatWord(last.extra)}

\* C2, amended: the dialect used is the format of d2toptions if it names one,
\* else the format of the command line (or keyword) if given, else the word
\* captured from d2toutputformat if not empty, else the default.
C2_Precedence ==
    ReachedSelect =>
        last.options.format =
            IF FormatWord(last.extra) # None THEN FormatWord(last.extra)
            ELSE IF last.base.format # None THEN last.base.format
            ELSE IF last.gfmt \notin {None, ""} THEN last.gfmt
            ELSE DEFAULT_OUTPUT_FORMAT

C2_Witness ==
    /\ Ran /\ last.base.format = None /\ last.gfmt = "tikz"
    /\ FormatWord(last.extra) = "pgf" /\ last.conv = "Dot2PGFConv"

Dialects == {"pstricks", "psn", "pgf", "tikz", "positions"}
DialectConverter ==
    [d \in Dialects |->
        CASE d = "pstricks" -> "Dot2PSTricksConv"
          [] d = "psn" -> "Dot2PSTricksNConv"
          [] d = "pgf" -> "Dot2PGFConv"
          [] d = "tikz" -> "Dot2TikZConv"
          [] d = "positions" -> "PositionsDotConv"]
\* The selector the configuration asks for: d2toptions, then the command
\* line or the keyword, then d2toutputformat.
Requested ==
    IF FormatWord(last.extra) # None THEN FormatWord(last.extra)
    ELSE IF Cli /\ FormatWord(last.argv) # None THEN FormatWord(last.argv)
    ELSE IF last.base.format # None THEN last.base.format
    ELSE last.gfmt
\* The selector came as a word of the command line or of d2toptions.
RequestedByWord ==
    FormatWord(last.extra) # None \/ (Cli /\ FormatWord(last.argv) # None)
\* The invocation did not end for a reason other than its format.
FormatDecides ==
    /\ Ran /\ NoUnknownWords
    /\ last.at \notin {"runtests", "version", "skip", "load", "input", "cache"}
UnknownFormatExit ==
    ReachedSelect /\ last.options.format \notin Dialects \cup {"pst"} =>
        /\ last.status = "exit" /\ last.code = 1 /\ last.at = "format"
        /\ NothingConverted /\ last.exc = "none"

\* C3, as claimed: every selector of {pstricks, psn, pgf, tikz, positions} is
\* accepted on every surface and gives the converter of that dialect; a
\* format outside the set ends main with exit status 1, nothing converted.
C3_Original ==
    /\ (FormatDecides /\ Requested \in Dialects) =>
            last.conv = DialectConverter[Requested]
    /\ UnknownFormatExit

\* C3, amended: positions is accepted as a convert_graph keyword and as
\* d2toutputformat only; as a word of the command line or of d2toptions the
\* parser rejects it (exit status 2, nothing converted).  Every other
\* selector of the set, on every surface, and positions on those two, gives
\* the converter of that dialect; a format outside the set (and not pst)
\* ends main with exit status 1, nothing converted.
C3_Dialects ==
    /\ (FormatDecides /\ Requested \in Dialects) =>
            IF Requested = "positions" /\ RequestedByWord
            THEN last.status = "exit" /\ last.code = 2 /\ NothingConverted
            ELSE last.conv = DialectConverter[Requested]
    /\ UnknownFormatExit

C3_Witness ==
    /\ Cli /\ last.argv = <<"-f", "positions">>
    /\ last.status = "exit" /\ last.code = 2

\* C4: a parse failure of the converter is not recovered from: no output
\* file is written and nothing is printed, and in module mode that exception,
\* like every exception of the converter, reaches the caller and no string is
\* returned.
C4_NoRecovery ==
    /\ (Ran /\ last.exc = "ParseException") =>
            /\ ~last.printed /\ last.wrote = None /\ outputs = last.pre.outputs
    /\ (Module /\ last.exc \in ConverterExceptions) =>
            /\ last.status = "raised" /\ last.ret = NoneRet

C4_Witness ==
    /\ Module /\ last.exc = "ParseException" /\ last.status = "raised"
    /\ last.base.outputfile = "out.tex" /\ last.base.autosize

\* C5: an invocation in which the conversion raises ends in an error its
\* caller sees: an exception in module mode, a non-zero exit in command-line
\* mode.
C5_ErrorOutcome ==
    (Ran /\ last.exc \in ConverterExceptions) =>
        \/ Module /\ last.status = "raised"
        \/ Cli /\ last.status = "exit" /\ last.code # 0

\* C6: a call of convert_graph returns (or raises) what the same source and
\* keywords give in a new process, whatever was invoked before it; so two
\* calls with the same source and keywords return the same string.
C6_Idempotent ==
    Module =>
        LET f == main(Frame(TRUE, last.src, UpdateOptions(Defaults, last.kwargs),
                            <<>>, <<>>, [World EXCEPT !.log = NewLog]))
        IN  /\ f.status = last.status /\ f.ret = last.ret
            /\ f.exc = last.exc /\ f.code = last.code

C6_Witness ==
    /\ Module /\ last.status = "returned" /\ last.hasextra
    /\ last.pre.log.level = "DEBUG" /\ last.ret.opts.straightedges

\* C7: when main returns, the logger (level, handlers) and the options object
\* of the caller are as they were before the invocation.
C7_NoSharedState ==
    (Ran /\ last.status = "returned") =>
        /\ log = last.pre.log
        /\ Module => last.options = last.base

\* The dot file of the run converts: no line a converter fails on, and no
\* d2toutputformat of an unknown format.
Convertible ==
    \A l \in Range(inputs[last.base.inputfile].lines) : l.k \in {"text", "blank"}

\* C8: in command-line mode with an input file and an output file, without
\* --force main exits without converting exactly when both files exist and
\* the input file is strictly older; with --force the input is converted and
\* the output written even if the output file is newer.
C8_ForceRecompiles ==
    (Cli /\ last.base.inputfile # None /\ last.base.outputfile # None
         /\ last.at # "usage") =>
        /\ ~last.base.force =>
              (last.at = "skip" <=>
                  last.pre.inexists /\ last.pre.outexists /\ last.pre.older)
        /\ (last.base.force /\ last.pre.inexists /\ Convertible) =>
              /\ last.status = "returned" /\ last.exc = "none"
              /\ last.wrote = last.base.outputfile

\* The lines that are not blank.
NonBlank(lines) == SelectLines(lines, {"text", "fmt", "opts", "input"} \cup BadKinds)
\* A command-line run with --cache, an input and an output file, that read
\* its input.
CacheRun ==
    /\ Cli /\ last.base.cache
    /\ last.base.inputfile # None /\ last.base.outputfile # None
    /\ last.at \notin {"usage", "runtests", "version", "skip", "load", "input"}
ExpectedHash ==
    InputHash(NonBlank(inputs[last.base.inputfile].lines), last.argv)
PastCache == last.at \in {"d2toptions", "format", "failed", "end"}

C10_CacheSound ==
    (CacheRun /\ last.at = "cache") =>
        LET c == outputs[last.base.outputfile].content
        IN  c.passes >= 1 /\ c.data = last.dotdata
====
